---------------------------- MODULE Spec2Model ----------------------------
(***************************************************************************)
(* Order settlement of the inventory application: Purchases.handleSubmit   *)
(* and Sales.handleSubmit running as sequences of awaited store calls      *)
(* against the shared database, whose tables carry row-level policies;     *)
(* beside them the Products page's edit form, the Suppliers form, and the  *)
(* totals that the Dashboard and the Debts page compute from the store.    *)
(*                                                                         *)
(* Units.  A numeric(15,2) column is held as an integer number of          *)
(* hundredths (stock 2.50 is 250, a price of 3 VND is 300).  A JavaScript  *)
(* product of two such values is held in ten-thousandths; Numeric2 is the  *)
(* store's rounding of such a value into a numeric(15,2) column.           *)
(***************************************************************************)
EXTENDS Integers, Sequences, FiniteSets, TLC

\* ---------------------------------------------------------------- bounds
MaxOrders == 2
MaxSettlements == 1
MaxFaults == 1

\* ------------------------------------------------------- program constants
Scale == 100

Sessions == {"u1", "u2"}
Roles == {"admin", "manager", "staff"}
Products == {"p1", "p2"}
Suppliers == {"s1", "s2"}
Customers == {"c1", "c2"}
NoId == ""
NULL == "null"

\* ------------------------------------------------------------ pure helpers
RECURSIVE SumOver(_, _)
SumOver(f, S) ==
  IF S = {} THEN 0
  ELSE LET x == CHOOSE y \in S : TRUE IN f[x] + SumOver(f, S \ {x})

\* numeric(15,2): a value given in ten-thousandths is stored rounded to
\* hundredths, halves away from zero.
Numeric2(x) ==
  IF x >= 0 THEN (x + (Scale \div 2)) \div Scale
  ELSE -((-x + (Scale \div 2)) \div Scale)

\* a stored value (hundredths) read back as a JavaScript number, in
\* ten-thousandths
Js(v) == v * Scale

\* ------------------------------------------------- row-level security
\* the tables that carry role policies, and the commands a policy is FOR
PolicyTables ==
  {"categories", "products", "suppliers", "customers", "purchase_orders",
   "purchase_order_items", "sales_orders", "sales_order_items", "payments",
   "cash_transactions"}
Commands == {"select", "insert", "update", "delete"}

\* CREATE POLICY ... ON table FOR cmd TO authenticated USING / WITH CHECK:
\* roles are those whose profile satisfies the condition ((true): every role)
Policy(table, cmd, roles) == [table |-> table, cmd |-> cmd, roles |-> roles]

\* the CREATE POLICY statements of the migration, in its order
Policies ==
  {
    Policy("categories", "select", Roles),
    Policy("categories", "insert", {"admin", "manager"}),
    Policy("categories", "update", {"admin", "manager"}),
    Policy("categories", "delete", {"admin"}),
    Policy("products", "select", Roles),
    Policy("products", "insert", {"admin", "manager"}),
    Policy("products", "update", {"admin", "manager"}),
    Policy("products", "delete", {"admin"}),
    Policy("suppliers", "select", Roles),
    Policy("suppliers", "insert", {"admin", "manager"}),
    Policy("suppliers", "update", {"admin", "manager"}),
    Policy("suppliers", "delete", {"admin"}),
    Policy("customers", "select", Roles),
    Policy("customers", "insert", Roles),
    Policy("customers", "update", {"admin", "manager"}),
    Policy("customers", "delete", {"admin"}),
    Policy("purchase_orders", "select", Roles),
    Policy("purchase_orders", "insert", {"admin", "manager"}),
    Policy("purchase_orders", "update", {"admin", "manager"}),
    Policy("purchase_orders", "delete", {"admin"}),
    Policy("purchase_order_items", "select", Roles),
    Policy("purchase_order_items", "insert", {"admin", "manager"}),
    Policy("purchase_order_items", "update", {"admin", "manager"}),
    Policy("purchase_order_items", "delete", {"admin"}),
    Policy("sales_orders", "select", Roles),
    Policy("sales_orders", "insert", Roles),
    Policy("sales_orders", "update", {"admin", "manager"}),
    Policy("sales_orders", "delete", {"admin"}),
    Policy("sales_order_items", "select", Roles),
    Policy("sales_order_items", "insert", Roles),
    Policy("sales_order_items", "update", {"admin", "manager"}),
    Policy("sales_order_items", "delete", {"admin"}),
    Policy("payments", "select", Roles),
    Policy("payments", "insert", {"admin", "manager"}),
    Policy("payments", "update", {"admin", "manager"}),
    Policy("payments", "delete", {"admin"}),
    Policy("cash_transactions", "select", Roles),
    Policy("cash_transactions", "insert", {"admin", "manager"}),
    Policy("cash_transactions", "update", {"admin", "manager"}),
    Policy("cash_transactions", "delete", {"admin"})
  }

\* a store that admits a command when any policy of the table admits the role
PermittedAnyCommand(role, table, op) ==
  \E p \in Policies : p.table = table /\ role \in p.roles

\* row-level security is enabled on every table: a command goes through when
\* some policy of the table for that command admits the caller's role
Permitted(role, table, op) ==
  \E p \in Policies : p.table = table /\ p.cmd = op /\ role \in p.roles

\* item.quantity * item.unit_price
LineTotal(item) == item.quantity * item.unit_price

\* orderItems.reduce((sum, item) => sum + item.quantity * item.unit_price, 0)
RECURSIVE ReduceItems(_, _)
ReduceItems(items, n) ==
  IF n = 0 THEN 0 ELSE ReduceItems(items, n - 1) + LineTotal(items[n])

\* Purchases.calculateTotal
PurchaseCalculateTotal(items) == ReduceItems(items, Len(items))

\* Sales.calculateSubtotal and Sales.calculateTotal
CalculateSubtotal(items) == ReduceItems(items, Len(items))
SalesCalculateTotal(items, fd) == CalculateSubtotal(items) - Js(fd.discount)


\* ------------------------------------------------------------------- state
VARIABLES
  \* the store
  profiles,              \* profiles.role of each session's user
  products,              \* products.stock_quantity by id
  suppliers,             \* suppliers.debt_balance by id
  customers,             \* customers.debt_balance by id
  purchase_orders,       \* rows in insertion order; a row's id is its position
  purchase_order_items,
  sales_orders,
  sales_order_items,
  now,                   \* the value Date.now() returns
  faults,                \* store calls that have failed so far
  \* one browser session per user
  currentPage,           \* App: the mounted page
  showModal,
  formData,
  orderItems,
  salesProducts,         \* Sales: the products state filled by loadProducts
  pc,                    \* the await at which handleSubmit is suspended
  orderNumber,
  totalAmount,
  orderData,             \* id of the inserted header
  idx,                   \* position of the for...of loop over orderItems
  fetched,               \* data of the last select
  outcome,               \* how the last handleSubmit ended
  productList,           \* Products: the products state filled by loadProducts
  editingProduct,        \* Products: id of the product being edited, or NoId
  productFormData,       \* Products: formData.stock_quantity
  decided,               \* the store's last decision on a command on a PolicyTables table
  \* observation only: never read by an action's guard or effect
  initial,               \* the balances the store started with
  applied,               \* the writes of the last settlement the store applied
  before                 \* the store and the draft when handleSubmit was entered

tables == <<purchase_orders, purchase_order_items, sales_orders, sales_order_items>>
store == <<profiles, products, suppliers, customers, tables>>
form == <<showModal, formData, orderItems>>
closure == <<orderNumber, totalAmount, orderData, idx, fetched>>
catalog == <<productList, editingProduct, productFormData>>
local == <<currentPage, salesProducts, form, pc, closure, outcome, catalog>>
vars == <<store, now, faults, local, decided, initial, applied, before>>

EmptyForm == [supplier_id |-> NoId, customer_id |-> NoId,
              paid_amount |-> 0, discount |-> 0]
\* failed: a stock or debt update was sent and did not take effect
NoWrites == [header |-> 0, lines |-> FALSE, stock |-> {}, debt |-> FALSE,
             failed |-> FALSE]
NoSubmit == [kind |-> "none"]
NoDecision == [op |-> "none"]

\* ----------------------------------------------------------- initial states
InitLocal ==
  /\ currentPage = [s \in Sessions |-> "dashboard"]
  /\ showModal = [s \in Sessions |-> FALSE]
  /\ formData = [s \in Sessions |-> EmptyForm]
  /\ orderItems = [s \in Sessions |-> <<>>]
  /\ salesProducts = [s \in Sessions |-> <<>>]
  /\ pc = [s \in Sessions |-> "idle"]
  /\ orderNumber = [s \in Sessions |-> NoId]
  /\ totalAmount = [s \in Sessions |-> 0]
  /\ orderData = [s \in Sessions |-> 0]
  /\ idx = [s \in Sessions |-> 0]
  /\ fetched = [s \in Sessions |-> NULL]
  /\ outcome = [s \in Sessions |-> "none"]
  /\ productList = [s \in Sessions |-> <<>>]
  /\ editingProduct = [s \in Sessions |-> NoId]
  /\ productFormData = [s \in Sessions |-> 0]
  /\ applied = [s \in Sessions |-> NoWrites]
  /\ before = [s \in Sessions |-> NoSubmit]

InitTables ==
  /\ purchase_orders = <<>>
  /\ purchase_order_items = <<>>
  /\ sales_orders = <<>>
  /\ sales_order_items = <<>>
  /\ now = 1
  /\ faults = 0
  /\ decided = NoDecision

\* ------------------------------------------------------- shared fragments
Set(f, s, v) == [f EXCEPT ![s] = v]

\* a store call fails (network, server) or goes through
CallOutcomes(budget) == IF faults < budget THEN BOOLEAN ELSE {TRUE}
Called(ok) == faults' = faults + (IF ok THEN 0 ELSE 1)

\* the store and the draft at the moment handleSubmit is entered
Submitted(kind, s, items, fd) ==
  [kind |-> kind, items |-> items, form |-> fd,
   \* the form is submitted again as it stands, after a submission that wrote
   again |-> /\ before[s].kind = kind
             /\ before[s].items = items /\ before[s].form = fd
             /\ applied[s].header > 0,
   products |-> products, suppliers |-> suppliers, customers |-> customers,
   purchase_orders |-> purchase_orders,
   purchase_order_items |-> purchase_order_items,
   sales_orders |-> sales_orders,
   sales_order_items |-> sales_order_items]

\* handleSubmit is left: its locals are gone
DropLocals(s) ==
  /\ pc' = Set(pc, s, "idle")
  /\ orderNumber' = Set(orderNumber, s, NoId)
  /\ totalAmount' = Set(totalAmount, s, 0)
  /\ orderData' = Set(orderData, s, 0)
  /\ idx' = Set(idx, s, 0)
  /\ fetched' = Set(fetched, s, NULL)

\* alert(...); return;
Return(s, how) ==
  /\ DropLocals(s)
  /\ outcome' = Set(outcome, s, how)

\* setShowModal(false); resetForm(); loadOrders();
Finish(s) ==
  /\ DropLocals(s)
  /\ outcome' = Set(outcome, s, "success")
  /\ showModal' = Set(showModal, s, FALSE)
  /\ formData' = Set(formData, s, EmptyForm)
  /\ orderItems' = Set(orderItems, s, <<>>)

\* handleSubmit stays suspended, now at the await `at`
Await(s, at, i, data) ==
  /\ pc' = Set(pc, s, at)
  /\ idx' = Set(idx, s, i)
  /\ fetched' = Set(fetched, s, data)
  /\ UNCHANGED <<form, orderNumber, totalAmount, orderData, outcome>>

\* the line at idx is dealt with: the next line, then the debt, then the end
NextLine(s, party) ==
  IF idx[s] < Len(orderItems[s])
  THEN Await(s, "select_stock", idx[s] + 1, NULL)
  ELSE IF party # NoId
       THEN Await(s, "select_debt", 0, NULL)
       ELSE Finish(s)

InFlight == Cardinality({s \in Sessions : pc[s] = "insert_header"})
Headers == Len(purchase_orders) + Len(sales_orders)

\* -------------------------------------------------------------- navigation
\* Layout.onNavigate -> App.setCurrentPage: the page component is mounted
Navigate(s, page) ==
  /\ pc[s] = "idle"
  /\ currentPage' = Set(currentPage, s, page)
  /\ showModal' = Set(showModal, s, FALSE)
  /\ formData' = Set(formData, s, EmptyForm)
  /\ orderItems' = Set(orderItems, s, <<>>)
  /\ salesProducts' = Set(salesProducts, s, <<>>)
  /\ productList' = Set(productList, s, <<>>)
  /\ editingProduct' = Set(editingProduct, s, NoId)
  /\ productFormData' = Set(productFormData, s, 0)
  /\ outcome' = Set(outcome, s, "none")
  /\ applied' = Set(applied, s, NoWrites)
  /\ before' = Set(before, s, NoSubmit)
  /\ UNCHANGED <<store, now, faults, decided, initial, pc, closure>>

\* Sales.loadProducts, started by the mount effect, delivers its rows
LoadProducts(s) ==
  /\ currentPage[s] = "sales"
  /\ salesProducts[s] = <<>>
  /\ salesProducts' = Set(salesProducts, s, products)
  /\ UNCHANGED <<store, now, faults, currentPage, form, pc, closure, outcome,
                 catalog, applied, decided, initial, before>>

\* Purchases: canEdit
CanEdit(s) == profiles[s] \in {"admin", "manager"}

\* the "create order" button: resetForm(); setShowModal(true)
OpenModal(s) ==
  /\ pc[s] = "idle"
  /\ \/ currentPage[s] = "purchases" /\ CanEdit(s)
     \/ currentPage[s] = "sales"
  /\ ~showModal[s]
  /\ showModal' = Set(showModal, s, TRUE)
  /\ formData' = Set(formData, s, EmptyForm)
  /\ orderItems' = Set(orderItems, s, <<>>)
  /\ outcome' = Set(outcome, s, "none")
  /\ applied' = Set(applied, s, NoWrites)
  /\ before' = Set(before, s, NoSubmit)
  /\ UNCHANGED <<store, now, faults, decided, initial, currentPage, salesProducts, catalog, pc, closure>>

\* Date.now() returns t: the clock never runs backwards
DateNow(t, cap) == t \in now..cap /\ now' = t

\* ------------------------------------------------ the forms' own constraints
\* The browser lets the form reach handleSubmit only with its required
\* fields filled in and its number inputs within their min.  A number is a
\* count of hundredths; neither form bounds a price, a payment or a discount,
\* and the purchase form does not bound a quantity.
\* <input type="number" min="0.01" step="0.01">
SalesQuantityValid(v) == v >= 1

\* Purchases: <select required> for the supplier and for each line's product
PurchaseFormValid(items, fd) ==
  /\ fd.supplier_id # NoId
  /\ \A i \in 1..Len(items) : items[i].product_id # NoId

\* Sales: <select required> for each line's product, the quantity's min
SalesFormValid(items, fd) ==
  \A i \in 1..Len(items) :
    /\ items[i].product_id # NoId
    /\ SalesQuantityValid(items[i].quantity)

\* a handler that lets an order without lines through
NoItemsUnchecked(items) == FALSE

\* orderItems.length === 0
NoItems(items) == Len(items) = 0

\* ------------------------------------------------- Purchases.handleSubmit
\* up to the first await: the empty check, orderNumber, totalAmount
PurchaseSubmit(s, items, fd, t, cap) ==
  /\ pc[s] = "idle" /\ showModal[s] /\ currentPage[s] = "purchases"
  /\ PurchaseFormValid(items, fd)
  /\ orderItems' = Set(orderItems, s, items)
  /\ formData' = Set(formData, s, fd)
  /\ before' = Set(before, s, Submitted("purchase", s, items, fd))
  /\ applied' = Set(applied, s, NoWrites)
  /\ IF NoItems(items)
     THEN Return(s, "rejected_empty") /\ UNCHANGED now
     ELSE /\ Headers + InFlight < cap
          /\ pc' = Set(pc, s, "insert_header")
          /\ DateNow(t, cap)
          /\ orderNumber' = Set(orderNumber, s, <<"NH", t>>)
          /\ totalAmount' = Set(totalAmount, s, PurchaseCalculateTotal(items))
          /\ outcome' = Set(outcome, s, "none")
          /\ UNCHANGED <<orderData, idx, fetched>>
  /\ UNCHANGED <<store, faults, decided, initial, currentPage, salesProducts, catalog, showModal>>

\* the row of .insert([{order_number, supplier_id, total_amount, ...}])
PurchaseHeaderRow(s) ==
  [order_number |-> orderNumber[s],
   supplier_id |-> formData[s].supplier_id,
   total_amount |-> Numeric2(totalAmount[s]),
   paid_amount |-> Numeric2(Js(formData[s].paid_amount)),
   status |-> "completed",
   created_by |-> s]

\* a purchase_orders table without the UNIQUE constraint on order_number
PurchaseOrderErrorNotUnique(s, ok) ==
  \/ ~ok
  \/ ~Permitted(profiles[s], "purchase_orders", "insert")

\* orderError: the policy refuses, order_number is taken, or the call fails
PurchaseOrderError(s, ok) ==
  \/ ~ok
  \/ ~Permitted(profiles[s], "purchase_orders", "insert")
  \/ \E i \in 1..Len(purchase_orders) : purchase_orders[i].order_number = orderNumber[s]

\* supabase.from('purchase_orders').insert([...]).select().single()
PurchaseInsertHeader(s, budget) ==
  /\ pc[s] = "insert_header" /\ currentPage[s] = "purchases"
  /\ \E ok \in CallOutcomes(budget) :
       /\ Called(ok)
       /\ IF PurchaseOrderError(s, ok)
          THEN /\ Return(s, "header_error")
               /\ UNCHANGED <<purchase_orders, applied, form>>
          ELSE /\ purchase_orders' = Append(purchase_orders, PurchaseHeaderRow(s))
               /\ orderData' = Set(orderData, s, Len(purchase_orders) + 1)
               /\ pc' = Set(pc, s, "insert_items")
               /\ applied' = Set(applied, s, [applied[s] EXCEPT !.header = orderData'[s]])
               /\ UNCHANGED <<form, orderNumber, totalAmount, idx, fetched, outcome>>
  /\ UNCHANGED <<profiles, products, suppliers, customers, purchase_order_items, sales_orders, sales_order_items,
                 now, currentPage, salesProducts, catalog, decided, initial, before>>

\* orderItems.map(item => ({purchase_order_id, product_id, quantity, ...}))
PurchaseItemRows(s) ==
  [i \in 1..Len(orderItems[s]) |->
     [purchase_order_id |-> orderData[s],
      product_id |-> orderItems[s][i].product_id,
      quantity |-> Numeric2(Js(orderItems[s][i].quantity)),
      unit_price |-> Numeric2(Js(orderItems[s][i].unit_price)),
      total_price |-> Numeric2(LineTotal(orderItems[s][i]))]]

\* a purchase that takes its header back when the insert of its lines fails
PurchaseInsertItemsRollback(s, budget) ==
  /\ pc[s] = "insert_items" /\ currentPage[s] = "purchases"
  /\ \E ok \in CallOutcomes(budget) :
       /\ Called(ok)
       /\ IF ~ok \/ ~Permitted(profiles[s], "purchase_order_items", "insert")
          THEN /\ Return(s, "items_error")
               /\ purchase_orders' = SubSeq(purchase_orders, 1, orderData[s] - 1)
               /\ applied' = Set(applied, s, NoWrites)
               /\ UNCHANGED <<purchase_order_items, form>>
          ELSE /\ purchase_order_items' = purchase_order_items \o PurchaseItemRows(s)
               /\ applied' = Set(applied, s, [applied[s] EXCEPT !.lines = TRUE])
               /\ Await(s, "select_stock", 1, NULL)
               /\ UNCHANGED purchase_orders
  /\ UNCHANGED <<profiles, products, suppliers, customers, sales_orders, sales_order_items,
                 now, currentPage, salesProducts, catalog, decided, initial, before>>

\* supabase.from('purchase_order_items').insert(items)
PurchaseInsertItems(s, budget) ==
  /\ pc[s] = "insert_items" /\ currentPage[s] = "purchases"
  /\ \E ok \in CallOutcomes(budget) :
       /\ Called(ok)
       /\ IF ~ok \/ ~Permitted(profiles[s], "purchase_order_items", "insert")
          THEN /\ Return(s, "items_error")
               /\ UNCHANGED <<purchase_order_items, applied, form>>
          ELSE /\ purchase_order_items' = purchase_order_items \o PurchaseItemRows(s)
               /\ applied' = Set(applied, s, [applied[s] EXCEPT !.lines = TRUE])
               /\ Await(s, "select_stock", 1, NULL)
  /\ UNCHANGED <<profiles, products, suppliers, customers, purchase_orders, sales_orders, sales_order_items,
                 now, currentPage, salesProducts, catalog, decided, initial, before>>

\* select('stock_quantity').eq('id', item.product_id).single()
PurchaseSelectStock(s, budget) ==
  /\ pc[s] = "select_stock" /\ currentPage[s] = "purchases"
  /\ \E ok \in CallOutcomes(budget) :
       /\ Called(ok)
       /\ IF ok
          THEN Await(s, "update_stock", idx[s],
                     products[orderItems[s][idx[s]].product_id])
          ELSE NextLine(s, formData[s].supplier_id)
  /\ UNCHANGED <<store, now, currentPage, salesProducts, catalog, applied, decided, initial, before>>

\* a purchase that writes the line's quantity over the stock it read
PurchaseNewStockOverwritten(product, item) == Numeric2(Js(item.quantity))

\* the value of update({stock_quantity: product.stock_quantity + item.quantity})
PurchaseNewStock(product, item) == Numeric2(Js(product) + Js(item.quantity))

\* supabase.from('products').update({stock_quantity: ...}).eq('id', ...)
PurchaseUpdateStock(s, budget) ==
  /\ pc[s] = "update_stock" /\ currentPage[s] = "purchases"
  /\ \E ok \in CallOutcomes(budget) :
       /\ Called(ok)
       /\ IF ok /\ Permitted(profiles[s], "products", "update")
          THEN /\ products' = [products EXCEPT
                   ![orderItems[s][idx[s]].product_id] =
                      PurchaseNewStock(fetched[s], orderItems[s][idx[s]])]
               /\ applied' = Set(applied, s,
                    [applied[s] EXCEPT !.stock = @ \cup {idx[s]}])
          ELSE /\ UNCHANGED products
               /\ applied' = Set(applied, s, [applied[s] EXCEPT !.failed = TRUE])
  /\ NextLine(s, formData[s].supplier_id)
  /\ UNCHANGED <<profiles, suppliers, customers, tables, now, currentPage,
                 salesProducts, catalog, decided, initial, before>>

\* select('debt_balance').eq('id', formData.supplier_id).single()
PurchaseSelectDebt(s, budget) ==
  /\ pc[s] = "select_debt" /\ currentPage[s] = "purchases"
  /\ \E ok \in CallOutcomes(budget) :
       /\ Called(ok)
       /\ IF ok
          THEN Await(s, "update_debt", 0, suppliers[formData[s].supplier_id])
          ELSE Finish(s)
  /\ UNCHANGED <<store, now, currentPage, salesProducts, catalog, applied, decided, initial, before>>

\* debtChange = totalAmount - formData.paid_amount;
\* the value of update({debt_balance: supplier.debt_balance + debtChange})
PurchaseNewDebt(balance, total, paid) == Numeric2(Js(balance) + (total - Js(paid)))

\* supabase.from('suppliers').update({debt_balance: ...}).eq('id', ...)
PurchaseUpdateDebt(s, budget) ==
  /\ pc[s] = "update_debt" /\ currentPage[s] = "purchases"
  /\ \E ok \in CallOutcomes(budget) :
       /\ Called(ok)
       /\ IF ok /\ Permitted(profiles[s], "suppliers", "update")
          THEN /\ suppliers' = [suppliers EXCEPT ![formData[s].supplier_id] =
                    PurchaseNewDebt(fetched[s], totalAmount[s], formData[s].paid_amount)]
               /\ applied' = Set(applied, s, [applied[s] EXCEPT !.debt = TRUE])
          ELSE /\ UNCHANGED suppliers
               /\ applied' = Set(applied, s, [applied[s] EXCEPT !.failed = TRUE])
  /\ Finish(s)
  /\ UNCHANGED <<profiles, products, customers, tables, now, currentPage,
                 salesProducts, catalog, decided, initial, before>>

\* products.find(p => p.id === item.product_id) finds a product whose loaded
\* stock_quantity is below the line's quantity
StockShort(list, items) ==
  \E i \in 1..Len(items) :
    /\ items[i].product_id \in DOMAIN list
    /\ Js(list[items[i].product_id]) < Js(items[i].quantity)

\* ------------------------------------------------- Sales.handleSubmit
\* up to the first await: the empty check, the stock check, orderNumber, totalAmount
SaleSubmit(s, items, fd, t, cap) ==
  /\ pc[s] = "idle" /\ showModal[s] /\ currentPage[s] = "sales"
  /\ SalesFormValid(items, fd)
  /\ \A i \in 1..Len(items) : items[i].product_id \in DOMAIN salesProducts[s]
  /\ orderItems' = Set(orderItems, s, items)
  /\ formData' = Set(formData, s, fd)
  /\ before' = Set(before, s, Submitted("sale", s, items, fd))
  /\ applied' = Set(applied, s, NoWrites)
  /\ IF NoItems(items)
     THEN Return(s, "rejected_empty") /\ UNCHANGED now
     ELSE IF StockShort(salesProducts[s], items)
     THEN Return(s, "rejected_stock") /\ UNCHANGED now
     ELSE /\ Headers + InFlight < cap
          /\ pc' = Set(pc, s, "insert_header")
          /\ DateNow(t, cap)
          /\ orderNumber' = Set(orderNumber, s, <<"BH", t>>)
          /\ totalAmount' = Set(totalAmount, s, SalesCalculateTotal(items, fd))
          /\ outcome' = Set(outcome, s, "none")
          /\ UNCHANGED <<orderData, idx, fetched>>
  /\ UNCHANGED <<store, faults, decided, initial, currentPage, salesProducts, catalog, showModal>>

\* a header row that carries the form's customer_id as it stands
SaleHeaderRowCustomerAsTyped(s) ==
  [order_number |-> orderNumber[s],
   customer_id |-> formData[s].customer_id,
   total_amount |-> Numeric2(totalAmount[s]),
   paid_amount |-> Numeric2(Js(formData[s].paid_amount)),
   discount |-> Numeric2(Js(formData[s].discount)),
   status |-> "completed",
   created_by |-> s]

\* the row of .insert([{order_number, customer_id, total_amount, ...}])
SaleHeaderRow(s) ==
  [order_number |-> orderNumber[s],
   customer_id |-> IF formData[s].customer_id # NoId
                   THEN formData[s].customer_id ELSE NULL,
   total_amount |-> Numeric2(totalAmount[s]),
   paid_amount |-> Numeric2(Js(formData[s].paid_amount)),
   discount |-> Numeric2(Js(formData[s].discount)),
   status |-> "completed",
   created_by |-> s]

\* orderError: the policy refuses, order_number is taken, or the call fails
SaleOrderError(s, ok) ==
  \/ ~ok
  \/ ~Permitted(profiles[s], "sales_orders", "insert")
  \/ \E i \in 1..Len(sales_orders) : sales_orders[i].order_number = orderNumber[s]

\* a sale that goes on to its lines although the insert of its header failed
SaleInsertHeaderUnchecked(s, budget) ==
  /\ pc[s] = "insert_header" /\ currentPage[s] = "sales"
  /\ \E ok \in CallOutcomes(budget) :
       /\ Called(ok)
       /\ IF SaleOrderError(s, ok)
          THEN UNCHANGED <<sales_orders, applied, orderData>>
          ELSE /\ sales_orders' = Append(sales_orders, SaleHeaderRow(s))
               /\ orderData' = Set(orderData, s, Len(sales_orders) + 1)
               /\ applied' = Set(applied, s, [applied[s] EXCEPT !.header = orderData'[s]])
       /\ pc' = Set(pc, s, "insert_items")
       /\ UNCHANGED <<form, orderNumber, totalAmount, idx, fetched, outcome>>
  /\ UNCHANGED <<profiles, products, suppliers, customers, purchase_orders, purchase_order_items, sales_order_items,
                 now, currentPage, salesProducts, catalog, decided, initial, before>>

\* supabase.from('sales_orders').insert([...]).select().single()
SaleInsertHeader(s, budget) ==
  /\ pc[s] = "insert_header" /\ currentPage[s] = "sales"
  /\ \E ok \in CallOutcomes(budget) :
       /\ Called(ok)
       /\ IF SaleOrderError(s, ok)
          THEN /\ Return(s, "header_error")
               /\ UNCHANGED <<sales_orders, applied, form>>
          ELSE /\ sales_orders' = Append(sales_orders, SaleHeaderRow(s))
               /\ orderData' = Set(orderData, s, Len(sales_orders) + 1)
               /\ pc' = Set(pc, s, "insert_items")
               /\ applied' = Set(applied, s, [applied[s] EXCEPT !.header = orderData'[s]])
               /\ UNCHANGED <<form, orderNumber, totalAmount, idx, fetched, outcome>>
  /\ UNCHANGED <<profiles, products, suppliers, customers, purchase_orders, purchase_order_items, sales_order_items,
                 now, currentPage, salesProducts, catalog, decided, initial, before>>

\* orderItems.map(item => ({sales_order_id, product_id, quantity, ...}))
SaleItemRows(s) ==
  [i \in 1..Len(orderItems[s]) |->
     [sales_order_id |-> orderData[s],
      product_id |-> orderItems[s][i].product_id,
      quantity |-> Numeric2(Js(orderItems[s][i].quantity)),
      unit_price |-> Numeric2(Js(orderItems[s][i].unit_price)),
      total_price |-> Numeric2(LineTotal(orderItems[s][i]))]]

\* a sale that goes on to the stock although the insert of its lines failed
SaleInsertItemsUnchecked(s, budget) ==
  /\ pc[s] = "insert_items" /\ currentPage[s] = "sales"
  /\ \E ok \in CallOutcomes(budget) :
       /\ Called(ok)
       /\ IF ~ok \/ ~Permitted(profiles[s], "sales_order_items", "insert")
          THEN UNCHANGED <<sales_order_items, applied>>
          ELSE /\ sales_order_items' = sales_order_items \o SaleItemRows(s)
               /\ applied' = Set(applied, s, [applied[s] EXCEPT !.lines = TRUE])
       /\ Await(s, "select_stock", 1, NULL)
  /\ UNCHANGED <<profiles, products, suppliers, customers, purchase_orders, purchase_order_items, sales_orders,
                 now, currentPage, salesProducts, catalog, decided, initial, before>>

\* supabase.from('sales_order_items').insert(items)
SaleInsertItems(s, budget) ==
  /\ pc[s] = "insert_items" /\ currentPage[s] = "sales"
  /\ \E ok \in CallOutcomes(budget) :
       /\ Called(ok)
       /\ IF ~ok \/ ~Permitted(profiles[s], "sales_order_items", "insert")
          THEN /\ Return(s, "items_error")
               /\ UNCHANGED <<sales_order_items, applied, form>>
          ELSE /\ sales_order_items' = sales_order_items \o SaleItemRows(s)
               /\ applied' = Set(applied, s, [applied[s] EXCEPT !.lines = TRUE])
               /\ Await(s, "select_stock", 1, NULL)
  /\ UNCHANGED <<profiles, products, suppliers, customers, purchase_orders, purchase_order_items, sales_orders,
                 now, currentPage, salesProducts, catalog, decided, initial, before>>

\* select('stock_quantity').eq('id', item.product_id).single()
SaleSelectStock(s, budget) ==
  /\ pc[s] = "select_stock" /\ currentPage[s] = "sales"
  /\ \E ok \in CallOutcomes(budget) :
       /\ Called(ok)
       /\ IF ok
          THEN Await(s, "update_stock", idx[s],
                     products[orderItems[s][idx[s]].product_id])
          ELSE NextLine(s, formData[s].customer_id)
  /\ UNCHANGED <<store, now, currentPage, salesProducts, catalog, applied, decided, initial, before>>

\* a sale that takes only whole units off the stock it read
SaleNewStockWholeUnits(product, item) ==
  Numeric2(Js(product) - Js(item.quantity - (item.quantity % Scale)))

\* the value of update({stock_quantity: product.stock_quantity - item.quantity})
SaleNewStock(product, item) == Numeric2(Js(product) - Js(item.quantity))

\* supabase.from('products').update({stock_quantity: ...}).eq('id', ...)
SaleUpdateStock(s, budget) ==
  /\ pc[s] = "update_stock" /\ currentPage[s] = "sales"
  /\ \E ok \in CallOutcomes(budget) :
       /\ Called(ok)
       /\ IF ok /\ Permitted(profiles[s], "products", "update")
          THEN /\ products' = [products EXCEPT
                   ![orderItems[s][idx[s]].product_id] =
                      SaleNewStock(fetched[s], orderItems[s][idx[s]])]
               /\ applied' = Set(applied, s,
                    [applied[s] EXCEPT !.stock = @ \cup {idx[s]}])
          ELSE /\ UNCHANGED products
               /\ applied' = Set(applied, s, [applied[s] EXCEPT !.failed = TRUE])
  /\ NextLine(s, formData[s].customer_id)
  /\ UNCHANGED <<profiles, suppliers, customers, tables, now, currentPage,
                 salesProducts, catalog, decided, initial, before>>

\* select('debt_balance').eq('id', formData.customer_id).single()
SaleSelectDebt(s, budget) ==
  /\ pc[s] = "select_debt" /\ currentPage[s] = "sales"
  /\ \E ok \in CallOutcomes(budget) :
       /\ Called(ok)
       /\ IF ok
          THEN Await(s, "update_debt", 0, customers[formData[s].customer_id])
          ELSE Finish(s)
  /\ UNCHANGED <<store, now, currentPage, salesProducts, catalog, applied, decided, initial, before>>

\* debtChange = totalAmount - formData.paid_amount;
\* the value of update({debt_balance: customer.debt_balance + debtChange})
SaleNewDebt(balance, total, paid) == Numeric2(Js(balance) + (total - Js(paid)))

\* supabase.from('customers').update({debt_balance: ...}).eq('id', ...)
SaleUpdateDebt(s, budget) ==
  /\ pc[s] = "update_debt" /\ currentPage[s] = "sales"
  /\ \E ok \in CallOutcomes(budget) :
       /\ Called(ok)
       /\ IF ok /\ Permitted(profiles[s], "customers", "update")
          THEN /\ customers' = [customers EXCEPT ![formData[s].customer_id] =
                    SaleNewDebt(fetched[s], totalAmount[s], formData[s].paid_amount)]
               /\ applied' = Set(applied, s, [applied[s] EXCEPT !.debt = TRUE])
          ELSE /\ UNCHANGED customers
               /\ applied' = Set(applied, s, [applied[s] EXCEPT !.failed = TRUE])
  /\ Finish(s)
  /\ UNCHANGED <<profiles, products, suppliers, tables, now, currentPage,
                 salesProducts, catalog, decided, initial, before>>

\* ------------------------------------------------------- the specifications
Pages == {"purchases", "sales"}

Line(p, q, u) == [product_id |-> p, quantity |-> q, unit_price |-> u]

\* what a user submits on the purchases page: no line, one line, the same
\* product twice, fractional amounts, a negative quantity, a line without a
\* product
PurchaseDrafts ==
  { <<>>,
    <<Line("p1", 100, 300)>>,
    <<Line("p1", 100, 300), Line("p1", 200, 200)>>,
    <<Line("p1", 150, 250)>>,
    <<Line("p1", -100, 300)>>,
    <<Line(NoId, 100, 300)>> }

\* what a user submits on the sales page: as above, with a quantity above
\* any stock, a price with cents, a line worth less than a discount, and a
\* quantity below the input's min
SalesDrafts ==
  { <<>>,
    <<Line("p1", 50, 300)>>,
    <<Line("p1", 50, 300), Line("p1", 25, 200)>>,
    <<Line("p1", 500, 300)>>,
    <<Line("p1", 25, 1050)>>,
    <<Line("p1", 50, 100)>>,
    <<Line("p1", 0, 300)>> }

PurchaseForms ==
  {[EmptyForm EXCEPT !.supplier_id = "s1", !.paid_amount = a] : a \in {0, 500}}
SalesForms ==
  { [EmptyForm EXCEPT !.customer_id = "c1", !.paid_amount = 500, !.discount = 100],
    [EmptyForm EXCEPT !.paid_amount = 200] }

\* one step of the settlement a session has under way
Settle(s, budget) ==
  \/ PurchaseInsertHeader(s, budget)
  \/ PurchaseInsertItems(s, budget)
  \/ PurchaseSelectStock(s, budget)
  \/ PurchaseUpdateStock(s, budget)
  \/ PurchaseSelectDebt(s, budget)
  \/ PurchaseUpdateDebt(s, budget)
  \/ SaleInsertHeader(s, budget)
  \/ SaleInsertItems(s, budget)
  \/ SaleSelectStock(s, budget)
  \/ SaleUpdateStock(s, budget)
  \/ SaleSelectDebt(s, budget)
  \/ SaleUpdateDebt(s, budget)

Browse(s) ==
  \/ \E page \in Pages : Navigate(s, page)
  \/ LoadProducts(s)
  \/ OpenModal(s)

\* One session works alone: nobody else touches the store.
Init ==
  /\ profiles \in [Sessions -> Roles]
  /\ profiles["u2"] = "staff"
  /\ products = [p \in Products |-> IF p = "p1" THEN 100 ELSE 250]
  /\ suppliers = [x \in Suppliers |-> IF x = "s1" THEN 0 ELSE 700]
  /\ customers = [x \in Customers |-> IF x = "c1" THEN 0 ELSE 2000]
  /\ initial = [products |-> products, suppliers |-> suppliers,
                customers |-> customers]
  /\ InitTables
  /\ InitLocal

Next ==
  \/ Browse("u1")
  \/ \E items \in PurchaseDrafts, fd \in PurchaseForms, t \in 1..MaxSettlements :
       PurchaseSubmit("u1", items, fd, t, MaxSettlements)
  \/ \E items \in SalesDrafts, fd \in SalesForms, t \in 1..MaxSettlements :
       SaleSubmit("u1", items, fd, t, MaxSettlements)
  \/ Settle("u1", MaxFaults)

Spec == Init /\ [][Next]_vars

\* orders of one line, or of two lines of the same product
RaceDrafts == {<<Line("p1", 100, 200)>>,
               <<Line("p1", 100, 200), Line("p1", 100, 200)>>}
RaceForm(kind) ==
  IF kind = "purchase" THEN [EmptyForm EXCEPT !.supplier_id = "s1"]
  ELSE [EmptyForm EXCEPT !.customer_id = "c1"]

InitRace ==
  /\ profiles = [s \in Sessions |-> IF s = "u1" THEN "admin" ELSE "manager"]
  /\ products = [p \in Products |-> 100]
  /\ suppliers = [x \in Suppliers |-> 0]
  /\ customers = [x \in Customers |-> 0]
  /\ initial = [products |-> products, suppliers |-> suppliers,
                customers |-> customers]
  /\ InitTables
  /\ InitLocal

\* One session settles several orders one after the other; a store call may
\* fail.
NextSession ==
  \/ Browse("u1")
  \/ \E items \in RaceDrafts, t \in 1..MaxOrders :
       PurchaseSubmit("u1", items, RaceForm("purchase"), t, MaxOrders)
  \/ \E items \in RaceDrafts, t \in 1..MaxOrders :
       SaleSubmit("u1", items, RaceForm("sale"), t, MaxOrders)
  \/ Settle("u1", MaxFaults)

SpecSession == InitRace /\ [][NextSession]_vars

\* Two sessions at once; every store call goes through.
NextRace ==
  \E s \in Sessions :
    \/ Browse(s)
    \/ \E items \in RaceDrafts, t \in 1..MaxOrders :
         PurchaseSubmit(s, items, RaceForm("purchase"), t, MaxOrders)
    \/ \E items \in RaceDrafts, t \in 1..MaxOrders :
         SaleSubmit(s, items, RaceForm("sale"), t, MaxOrders)
    \/ Settle(s, 0)

SpecRace == InitRace /\ [][NextRace]_vars

\* ------------------------------------------------------- the Products page
\* Products.loadProducts, started by the mount effect or by a save, delivers
\* its rows
ProductsLoadProducts(s) ==
  /\ currentPage[s] = "products"
  /\ productList[s] = <<>>
  /\ productList' = Set(productList, s, products)
  /\ UNCHANGED <<store, now, faults, currentPage, salesProducts, form, pc,
                 closure, outcome, editingProduct, productFormData,
                 applied, decided, initial, before>>

\* the edit button of a listed row (shown when canEdit): handleEdit(product)
\* copies the row as it was loaded into the form and opens it
HandleEdit(s, p) ==
  /\ currentPage[s] = "products" /\ CanEdit(s)
  /\ ~showModal[s]
  /\ p \in DOMAIN productList[s]
  /\ editingProduct' = Set(editingProduct, s, p)
  /\ productFormData' = Set(productFormData, s, productList[s][p])
  /\ showModal' = Set(showModal, s, TRUE)
  /\ outcome' = Set(outcome, s, "none")
  /\ UNCHANGED <<store, now, faults, currentPage, salesProducts, formData,
                 orderItems, pc, closure, productList,
                 applied, decided, initial, before>>

\* Products.handleSubmit with an editingProduct, the form left as it was
\* filled: update(formData).eq('id', editingProduct.id), then alert(...) and
\* return on error, else close, reset and reload
ProductsHandleSubmit(s, budget) ==
  /\ currentPage[s] = "products" /\ showModal[s]
  /\ editingProduct[s] # NoId
  /\ \E ok \in CallOutcomes(budget) :
       /\ Called(ok)
       /\ IF ~ok
          THEN /\ outcome' = Set(outcome, s, "product_error")
               /\ UNCHANGED <<products, showModal, catalog>>
          ELSE /\ products' =
                    IF Permitted(profiles[s], "products", "update")
                    THEN [products EXCEPT ![editingProduct[s]] =
                            Numeric2(Js(productFormData[s]))]
                    ELSE products
               /\ outcome' = Set(outcome, s, "product_saved")
               /\ showModal' = Set(showModal, s, FALSE)
               /\ editingProduct' = Set(editingProduct, s, NoId)
               /\ productFormData' = Set(productFormData, s, 0)
               /\ productList' = Set(productList, s, <<>>)
  /\ UNCHANGED <<profiles, suppliers, customers, tables, now, currentPage,
                 salesProducts, formData, orderItems, pc, closure,
                 applied, decided, initial, before>>

\* One user edits products while another settles orders; every store call
\* goes through.
NextEdit ==
  \/ Navigate("u1", "products")
  \/ ProductsLoadProducts("u1")
  \/ \E p \in Products : HandleEdit("u1", p)
  \/ ProductsHandleSubmit("u1", 0)
  \/ Browse("u2")
  \/ \E items \in RaceDrafts, t \in 1..MaxSettlements :
       PurchaseSubmit("u2", items, RaceForm("purchase"), t, MaxSettlements)
  \/ \E items \in RaceDrafts, t \in 1..MaxSettlements :
       SaleSubmit("u2", items, RaceForm("sale"), t, MaxSettlements)
  \/ Settle("u2", 0)

SpecEdit == InitRace /\ [][NextEdit]_vars

\* -------------------------------------------------- the store's policies
\* the database decides a command of a session on a table
Decision(s, table, op) ==
  [by |-> s, role |-> profiles[s], table |-> table, op |-> op,
   permitted |-> Permitted(profiles[s], table, op)]

\* a session sends a command on a table: the policies admit or refuse it
Authorize(s, table, op) ==
  /\ decided' = Decision(s, table, op)
  /\ UNCHANGED <<store, now, faults, local, initial, applied, before>>

\* ids that gen_random_uuid() gives to new suppliers rows
NewSuppliers == {"s3", "s4"}

\* Suppliers.handleSubmit reports every error
SupplierErrorIfCallFails(s, ok) == ~ok

\* error of from('suppliers').insert([formData]): the policy refuses, or the
\* call fails
SupplierError(s, ok) ==
  ~ok \/ ~Permitted(profiles[s], "suppliers", "insert")

\* Suppliers.handleSubmit with no editingSupplier: one insert, then
\* alert(...) and return on error, else close, reset and reload
SupplierSubmit(s, id, budget) ==
  /\ pc[s] = "idle"
  /\ id \notin DOMAIN suppliers
  /\ decided' = Decision(s, "suppliers", "insert")
  /\ \E ok \in CallOutcomes(budget) :
       /\ Called(ok)
       /\ IF SupplierError(s, ok)
          THEN /\ outcome' = Set(outcome, s, "supplier_error")
               /\ UNCHANGED suppliers
          ELSE /\ outcome' = Set(outcome, s, "success")
               /\ suppliers' = [x \in DOMAIN suppliers \cup {id} |->
                                  IF x = id THEN 0 ELSE suppliers[x]]
  /\ UNCHANGED <<profiles, products, customers, tables, now, currentPage,
                 salesProducts, catalog, form, pc, closure, initial, applied, before>>

\* "Users can update own profile": USING (auth.uid() = id)
\* WITH CHECK (auth.uid() = id); the only UPDATE policy on profiles
OwnProfile(s, id) == s = id

\* a session sends UPDATE profiles SET role = ... WHERE id = ...: the rows
\* the policy admits are written when the new row passes the policy's check
\* and the column's CHECK (role IN ('admin', 'manager', 'staff'))
UpdateProfile(s, id, role) ==
  /\ pc[s] = "idle"
  /\ role \in Roles
  /\ profiles' = IF OwnProfile(s, id) THEN [profiles EXCEPT ![id] = role]
                 ELSE profiles
  /\ UNCHANGED <<products, suppliers, customers, tables, now, faults, local,
                 decided, initial, applied, before>>

\* Every role sends every command, and adds suppliers.
InitPolicy ==
  /\ profiles \in [Sessions -> Roles]
  /\ products = [p \in Products |-> 100]
  /\ suppliers = [x \in Suppliers |-> 0]
  /\ customers = [x \in Customers |-> 0]
  /\ initial = [products |-> products, suppliers |-> suppliers,
                customers |-> customers]
  /\ InitTables
  /\ InitLocal

NextPolicy ==
  \E s \in Sessions :
    \/ \E table \in PolicyTables, op \in Commands : Authorize(s, table, op)
    \/ \E id \in NewSuppliers : SupplierSubmit(s, id, MaxFaults)

SpecPolicy == InitPolicy /\ [][NextPolicy]_vars

\* Every user updates profiles rows, and adds suppliers under the role the
\* store then finds in the caller's profile; every store call goes through.
NextProfile ==
  \E s \in Sessions :
    \/ \E id \in Sessions, role \in Roles : UpdateProfile(s, id, role)
    \/ \E id \in NewSuppliers : SupplierSubmit(s, id, 0)

SpecProfile == InitPolicy /\ [][NextProfile]_vars

\* ------------------------------------------------- Dashboard and Debts
\* products.min_stock_level by id: no settlement writes it
min_stock_level == [p \in Products |-> IF p = "p1" THEN 75 ELSE 100]

\* Dashboard.loadStats: lowStockRes.  The operand of .lt('stock_quantity', ...)
\* is the request builder that supabase.rpc(...) returns, not a number and
\* not a column: it goes into the query string as text, the store cannot
\* compare stock_quantity with it and answers with an error, count is null
lowStockRes == [error |-> TRUE, count |-> NULL]

\* Dashboard.loadStats: lowStockProducts: lowStockRes.count || 0
lowStockProducts == IF lowStockRes.count = NULL THEN 0 ELSE lowStockRes.count

\* Dashboard.loadStats: select('debt_balance') of every row, and
\* data.reduce((sum, row) => sum + Number(row.debt_balance), 0) || 0
customerDebts == SumOver(customers, DOMAIN customers)
supplierDebts == SumOver(suppliers, DOMAIN suppliers)

\* Debts.loadDebts: select(...).gt('debt_balance', 0)
LoadDebts(rows) == {x \in DOMAIN rows : rows[x] > 0}

\* Debts: customers.reduce((sum, c) => sum + c.debt_balance, 0) over the
\* loaded rows, and the same for suppliers
totalCustomerDebt == SumOver(customers, LoadDebts(customers))
totalSupplierDebt == SumOver(suppliers, LoadDebts(suppliers))

\* ------------------------------------------------------------- properties
Quantity(items) == [i \in DOMAIN items |-> items[i].quantity]
Amount(items) == [i \in DOMAIN items |-> items[i].quantity * items[i].unit_price]
LinesOf(items, p) == {i \in DOMAIN items : items[i].product_id = p}
RowsOf(rows, key, id) == {i \in DOMAIN rows : rows[i][key] = id}

\* quantity of the persisted lines of a product
Bought(p) == SumOver(Quantity(purchase_order_items), LinesOf(purchase_order_items, p))
Sold(p) == SumOver(Quantity(sales_order_items), LinesOf(sales_order_items, p))

\* unpaid remainder of the persisted orders of a counterparty
Unpaid(orders) == [i \in DOMAIN orders |-> orders[i].total_amount - orders[i].paid_amount]
Owed(orders, key, x) == SumOver(Unpaid(orders), RowsOf(orders, key, x))

Quiet == \A s \in Sessions : pc[s] = "idle"
Ended(s) == pc[s] = "idle" /\ before[s].kind \in {"purchase", "sale"}
Party(s) == IF before[s].kind = "purchase" THEN before[s].form.supplier_id
            ELSE before[s].form.customer_id

\* every write of the settlement was carried out by the store
AllApplied(s) ==
  /\ applied[s].header > 0
  /\ applied[s].lines
  /\ applied[s].stock = DOMAIN before[s].items
  /\ Party(s) # NoId => applied[s].debt
NoneApplied(s) == applied[s] = NoWrites

\* the settlement ended as a success and every one of its store calls succeeded
Settled(s, kind) ==
  /\ Ended(s) /\ before[s].kind = kind
  /\ outcome[s] = "success"
  /\ AllApplied(s)

\* C1: once all settlements have run to completion, each product's stock is its
\* initial stock plus the persisted purchase lines minus the persisted sales
\* lines for it, whatever the interleaving.
C1_StockReconciles ==
  Quiet => \A p \in Products :
             products[p] = initial.products[p] + Bought(p) - Sold(p)

\* C2: once all settlements have run to completion, each counterparty's debt
\* is its initial balance plus total_amount - paid_amount of the persisted
\* orders that reference it.
C2_DebtReconciles ==
  Quiet =>
    /\ \A x \in Suppliers :
         suppliers[x] = initial.suppliers[x] + Owed(purchase_orders, "supplier_id", x)
    /\ \A x \in Customers :
         customers[x] = initial.customers[x] + Owed(sales_orders, "customer_id", x)

\* C3: a settlement that has ended has applied all of its writes or none.
C3_AllOrNothing ==
  \A s \in Sessions : Ended(s) => AllApplied(s) \/ NoneApplied(s)

\* C4: no product's stock_quantity is ever negative.
C4_StockNeverNegative == \A p \in Products : products[p] >= 0

\* a line of the submitted sale asks for more than the store held at the
\* moment of submission
Oversells(s) ==
  /\ before[s].kind = "sale"
  /\ \E i \in DOMAIN before[s].items :
       before[s].items[i].quantity > before[s].products[before[s].items[i].product_id]

Untouched(s) ==
  /\ products = before[s].products
  /\ suppliers = before[s].suppliers
  /\ customers = before[s].customers
  /\ purchase_orders = before[s].purchase_orders
  /\ purchase_order_items = before[s].purchase_order_items
  /\ sales_orders = before[s].sales_orders
  /\ sales_order_items = before[s].sales_order_items

\* C5: a sale with a line above the store's stock at submission is rejected
\* before settlement and writes nothing.
C5_OversellRejected ==
  \A s \in Sessions :
    Oversells(s) => /\ pc[s] = "idle"
                    /\ outcome[s] = "rejected_stock"
                    /\ Untouched(s)

\* C6: after a purchase that ran alone with every store call succeeding, each
\* product's stock is its stock before plus the quantities of the order's
\* lines for it.
C6_PurchaseAddsStock ==
  \A s \in Sessions :
    Settled(s, "purchase") =>
      \A p \in Products :
        products[p] = before[s].products[p]
                      + SumOver(Quantity(before[s].items), LinesOf(before[s].items, p))

C6_Witness ==
  \E s \in Sessions :
    /\ Settled(s, "purchase")
    /\ Cardinality(LinesOf(before[s].items, "p1")) = 2

Header(s) ==
  IF before[s].kind = "purchase" THEN purchase_orders[applied[s].header]
  ELSE sales_orders[applied[s].header]

\* C8: after a settlement with a counterparty that ran alone with every store
\* call succeeding, the counterparty's debt is its debt before plus
\* total_amount - paid_amount of the persisted header, and no other balance
\* has changed.
C8_DebtFollowsHeader ==
  \A s \in Sessions :
    (Settled(s, before[s].kind) /\ Party(s) # NoId) =>
      LET change == Header(s).total_amount - Header(s).paid_amount
          was(table, x) == before[s][table][x]
          owes(kind, x) == IF before[s].kind = kind /\ Party(s) = x
                           THEN change ELSE 0
      IN /\ \A x \in Suppliers :
              suppliers[x] = was("suppliers", x) + owes("purchase", x)
         /\ \A x \in Customers :
              customers[x] = was("customers", x) + owes("sale", x)

\* the lines of a persisted header: its persisted rows, or the submitted draft
\* while the settlement that wrote the header is the session's last one
HeaderHolds(total, discount, items) ==
  total * Scale = SumOver(Amount(items), DOMAIN items) - discount * Scale

\* C9: every persisted header has total_amount = sum of quantity * unit_price
\* over its lines, less the discount for a sale.
C9_HeaderTotal ==
  /\ \A s \in Sessions :
       (before[s].kind \in {"purchase", "sale"} /\ applied[s].header > 0) =>
         HeaderHolds(Header(s).total_amount,
                     IF before[s].kind = "sale" THEN Header(s).discount ELSE 0,
                     before[s].items)
  /\ \A id \in DOMAIN purchase_orders :
       LET rows == RowsOf(purchase_order_items, "purchase_order_id", id) IN
       rows # {} =>
         purchase_orders[id].total_amount * Scale
           = SumOver(Amount(purchase_order_items), rows)
  /\ \A id \in DOMAIN sales_orders :
       LET rows == RowsOf(sales_order_items, "sales_order_id", id) IN
       rows # {} =>
         sales_orders[id].total_amount * Scale
           = SumOver(Amount(sales_order_items), rows)
             - sales_orders[id].discount * Scale

\* C10: every persisted order line has total_price = quantity * unit_price.
C10_LineTotal ==
  /\ \A i \in DOMAIN purchase_order_items :
       purchase_order_items[i].total_price * Scale
         = purchase_order_items[i].quantity * purchase_order_items[i].unit_price
  /\ \A i \in DOMAIN sales_order_items :
       sales_order_items[i].total_price * Scale
         = sales_order_items[i].quantity * sales_order_items[i].unit_price

\* C11: while no settlement is in progress, every persisted header has its
\* lines persisted: no header exists without its lines.
C11_HeaderWithLines ==
  Quiet =>
    /\ \A id \in DOMAIN purchase_orders :
         RowsOf(purchase_order_items, "purchase_order_id", id) # {}
    /\ \A id \in DOMAIN sales_orders :
         RowsOf(sales_order_items, "sales_order_id", id) # {}
    /\ \A s \in Sessions : applied[s].header > 0 => applied[s].lines

\* C12: a form submitted again as it stands, after a submission that already
\* wrote to the store, writes nothing more.
C12_ResubmitWritesNothing ==
  \A s \in Sessions :
    (before[s].kind \in {"purchase", "sale"} /\ before[s].again) => Untouched(s)

\* the session whose handleSubmit takes the step
Acts(s) == pc'[s] # pc[s]
\* the persisted lines of the order the session is settling
OwnRows(s) ==
  IF before[s].kind = "purchase"
  THEN RowsOf(purchase_order_items, "purchase_order_id", orderData[s])
  ELSE RowsOf(sales_order_items, "sales_order_id", orderData[s])
NewRows(rows, rows2) == DOMAIN rows2 \ DOMAIN rows

\* C13: within a settlement the writes come in the order header, lines,
\* stock, debt: a line is persisted only after its header, a stock or debt
\* write happens only after the order's lines are persisted, and no stock
\* write follows the debt write.
C13_WriteOrder ==
  [][ /\ \A i \in NewRows(purchase_order_items, purchase_order_items') :
           purchase_order_items'[i].purchase_order_id \in DOMAIN purchase_orders
      /\ \A i \in NewRows(sales_order_items, sales_order_items') :
           sales_order_items'[i].sales_order_id \in DOMAIN sales_orders
      /\ products' # products =>
           \E s \in Sessions :
             /\ Acts(s) /\ pc[s] = "update_stock"
             /\ applied[s].lines /\ OwnRows(s) # {}
             /\ ~applied[s].debt
      /\ (suppliers' # suppliers \/ customers' # customers) =>
           \E s \in Sessions :
             /\ Acts(s) /\ pc[s] = "update_debt"
             /\ applied[s].lines /\ OwnRows(s) # {}
             /\ idx[s] = 0
    ]_vars

C13_Witness ==
  \E s \in Sessions :
    /\ Ended(s) /\ applied[s].lines /\ applied[s].debt
    /\ Cardinality(applied[s].stock) = 2
    /\ Len(before[s].items) = 2

\* the decision the policy table of the specification gives
Claimed(role, table, op) ==
  CASE op = "select" -> TRUE
    [] op = "insert" ->
         \/ role \in {"admin", "manager"}
         \/ table \in {"customers", "sales_orders", "sales_order_items"}
    [] op = "update" -> role \in {"admin", "manager"}
    [] op = "delete" -> role = "admin"

\* C14: on every table with role policies, read is permitted to every role,
\* insert and update to admin and manager only, delete to admin only, except
\* that insert on customers and on sales orders and their items is permitted
\* to every role.
C14_PolicyMatrix ==
  decided # NoDecision =>
    decided.permitted = Claimed(decided.role, decided.table, decided.op)

C14_Witness ==
  /\ decided # NoDecision
  /\ decided.role = "staff" /\ decided.table = "sales_order_items"
  /\ decided.op = "insert" /\ decided.permitted

\* C15: a staff caller's insert of a supplier ends in an error reported to
\* the caller and leaves the suppliers table unchanged.
C15_StaffSupplierRefused ==
  [][ \A s \in Sessions :
        ( /\ decided'.op = "insert" /\ decided'.table = "suppliers"
          /\ decided'.by = s /\ outcome'[s] # "none"
          /\ profiles[s] = "staff" )
        => /\ suppliers' = suppliers
           /\ outcome'[s] = "supplier_error"
    ]_vars

C15_Witness ==
  /\ decided # NoDecision
  /\ decided.op = "insert" /\ decided.table = "suppliers"
  /\ profiles[decided.by] = "staff"
  /\ outcome[decided.by] = "supplier_error"
  /\ faults = 0

\* C16: a submission with an empty line list is rejected and writes nothing
\* to the store.
C16_EmptyRejected ==
  \A s \in Sessions :
    (before[s].kind \in {"purchase", "sale"} /\ before[s].items = <<>>) =>
      /\ pc[s] = "idle"
      /\ outcome[s] = "rejected_empty"
      /\ applied[s] = NoWrites
      /\ Untouched(s)

C16_Witness ==
  \E s \in Sessions :
    /\ before[s].kind = "purchase" /\ before[s].items = <<>>
    /\ outcome[s] = "rejected_empty"
    /\ showModal[s]

\* a line of the submission has a quantity of zero or less
NothingToMove(s) ==
  /\ before[s].kind \in {"purchase", "sale"}
  /\ \E i \in DOMAIN before[s].items : before[s].items[i].quantity <= 0

\* C17: a submission with a line of quantity <= 0 is rejected before any
\* write, so every persisted line has quantity > 0 and no purchase lowers a
\* stock.
C17_QuantityPositive ==
  /\ \A s \in Sessions :
       NothingToMove(s) => pc[s] = "idle" /\ applied[s] = NoWrites /\ Untouched(s)
  /\ \A i \in DOMAIN purchase_order_items : purchase_order_items[i].quantity > 0
  /\ \A i \in DOMAIN sales_order_items : sales_order_items[i].quantity > 0

\* C18: every persisted sales header has a discount of at most the sum of
\* quantity * unit_price over its lines, hence a total_amount >= 0.
C18_DiscountWithinSubtotal ==
  \A id \in DOMAIN sales_orders :
    LET rows == RowsOf(sales_order_items, "sales_order_id", id) IN
    /\ sales_orders[id].total_amount >= 0
    /\ rows # {} =>
         sales_orders[id].discount * Scale <= SumOver(Amount(sales_order_items), rows)

OrderNumbers(orders) == {orders[i].order_number : i \in DOMAIN orders}
\* the number the session generated is on a persisted order of its kind
NumberTaken(s) ==
  \/ before[s].kind = "purchase" /\ orderNumber[s] \in OrderNumbers(purchase_orders)
  \/ before[s].kind = "sale" /\ orderNumber[s] \in OrderNumbers(sales_orders)

C20_PartialIsReported ==
  \A s \in Sessions :
    (Ended(s) /\ applied[s].lines /\ applied[s].failed) => outcome[s] # "success"

\* C21: a sale whose header insert was authorized has no later step refused:
\* when none of its store calls failed, it ends with its lines, each line's
\* stock and the customer's debt written, whatever the role of the caller.
C21_AuthorizedSaleFullyApplied ==
  \A s \in Sessions :
    (Ended(s) /\ before[s].kind = "sale" /\ applied[s].header > 0 /\ faults = 0)
      => AllApplied(s)

\* the session's insert of its header comes back without a row
HeaderInsertFailed(s) ==
  /\ pc[s] = "insert_header" /\ Acts(s)
  /\ UNCHANGED <<purchase_orders, sales_orders>>

\* C22: a settlement whose header insert fails stops there with an error
\* reported (the form stays open): no line is inserted and no stock and no
\* debt changes, then or later.
C22_HeaderFailureStops ==
  [][ \A s \in Sessions :
        /\ HeaderInsertFailed(s) =>
             /\ pc'[s] = "idle" /\ outcome'[s] = "header_error"
             /\ showModal'[s]
             /\ UNCHANGED <<products, suppliers, customers, tables>>
        /\ (Ended(s) /\ outcome[s] = "header_error" /\ pc'[s] = "idle"
            /\ outcome'[s] = outcome[s]) =>
             /\ applied'[s] = NoWrites
             /\ UNCHANGED <<products, suppliers, customers, tables>>
    ]_vars

C22_Witness ==
  \E s \in Sessions :
    /\ Ended(s) /\ outcome[s] = "header_error" /\ before[s].kind = "sale"
    /\ before[s].form.customer_id # NoId
    /\ faults = 1 /\ applied[s] = NoWrites /\ Untouched(s)

\* the session's insert of its lines comes back with an error
ItemsInsertFailed(s) ==
  /\ pc[s] = "insert_items" /\ Acts(s)
  /\ UNCHANGED <<purchase_order_items, sales_order_items>>

\* C23: a settlement whose insert of the lines fails after its header was
\* persisted stops there with an error reported; the header stays persisted
\* as written, and no stock and no debt is changed by that settlement.
C23_ItemsFailureKeepsHeader ==
  [][ \A s \in Sessions :
        /\ ItemsInsertFailed(s) =>
             /\ pc'[s] = "idle" /\ outcome'[s] = "items_error"
             /\ showModal'[s]
             /\ applied'[s].header > 0 /\ ~applied'[s].lines
             /\ UNCHANGED <<purchase_orders, sales_orders>>
             /\ Header(s)' = Header(s)
             /\ products' = before[s].products
             /\ suppliers' = before[s].suppliers
             /\ customers' = before[s].customers
        /\ (Ended(s) /\ outcome[s] = "items_error" /\ pc'[s] = "idle"
            /\ outcome'[s] = outcome[s]) =>
             /\ applied'[s] = applied[s]
             /\ UNCHANGED <<products, suppliers, customers, tables>>
    ]_vars

C23_Witness ==
  \E s \in Sessions :
    /\ Ended(s) /\ outcome[s] = "items_error" /\ before[s].kind = "purchase"
    /\ faults = 1 /\ applied[s].header > 0
    /\ Header(s).order_number = <<"NH", 1>>
    /\ Len(purchase_order_items) = 0
    /\ products = before[s].products /\ suppliers = before[s].suppliers

\* the submitted sale has no customer selected
WalkIn(s) == before[s].kind = "sale" /\ before[s].form.customer_id = NoId

\* C24: a sale with no customer selected persists its header with a null
\* customer reference and leaves every customer's debt_balance as it was,
\* whatever its total_amount and paid_amount.
C24_WalkInLeavesDebts ==
  \A s \in Sessions :
    WalkIn(s) =>
      /\ customers = before[s].customers
      /\ ~applied[s].debt
      /\ applied[s].header > 0 => Header(s).customer_id = NULL

C24_Witness ==
  \E s \in Sessions :
    /\ WalkIn(s) /\ Settled(s, "sale")
    /\ Header(s).total_amount > Header(s).paid_amount
    /\ customers = before[s].customers

\* the lines of the submitted sale for one product add up to more than the
\* store held of it at submission, though no single line does
OversellsInSum(s) ==
  /\ before[s].kind = "sale"
  /\ ~Oversells(s)
  /\ \E p \in Products :
       /\ Cardinality(LinesOf(before[s].items, p)) >= 2
       /\ SumOver(Quantity(before[s].items), LinesOf(before[s].items, p))
            > before[s].products[p]

\* C27: a sale whose lines for one product add up to more than the product's
\* stock is rejected before any write, also when each line alone is within
\* the stock.
C27_SumOversellRejected ==
  \A s \in Sessions :
    OversellsInSum(s) => /\ pc[s] = "idle"
                         /\ outcome[s] = "rejected_stock"
                         /\ applied[s] = NoWrites
                         /\ Untouched(s)

\* C29: on every state of the store the dashboard's outstanding debt totals
\* equal the totals of the debts view, for customers and for suppliers, also
\* when a balance is negative.
C29_DebtTotalsAgree ==
  /\ customerDebts = totalCustomerDebt
  /\ supplierDebts = totalSupplierDebt

\* the products whose stock is below their own minimum level
BelowMinimum == {p \in DOMAIN products : products[p] < min_stock_level[p]}

\* C30: on every state of the store the dashboard's low-stock count is the
\* number of products whose stock_quantity is below their min_stock_level.
C30_LowStockCount == lowStockProducts = Cardinality(BelowMinimum)

\* C26: no sequence of store operations changes the role of a user whose
\* role is staff, so that user never becomes permitted a command that the
\* policies refuse to staff.
C26_StaffStaysStaff ==
  [][ \A s \in Sessions :
        profiles[s] = "staff" =>
          /\ profiles'[s] = "staff"
          /\ \A table \in PolicyTables, op \in Commands :
               Permitted(profiles'[s], table, op) => Permitted("staff", table, op)
    ]_vars

\* C28: saving a product's edit form with its stock field left as shown does
\* not undo a settlement: once the edit is saved and no settlement is under
\* way, each product's stock still is its initial stock plus the persisted
\* purchase lines minus the persisted sales lines for it.
C28_EditKeepsSettlements ==
  (Quiet /\ \E s \in Sessions : outcome[s] = "product_saved") =>
    \A p \in Products :
      products[p] = initial.products[p] + Bought(p) - Sold(p)

\* the amounts and the status a persisted header carries
HeaderFacts(row) ==
  [total_amount |-> row.total_amount, paid_amount |-> row.paid_amount,
   discount |-> IF "discount" \in DOMAIN row THEN row.discount ELSE 0,
   status |-> row.status]
\* the amounts a persisted line carries
LineFacts(row) ==
  [quantity |-> row.quantity, unit_price |-> row.unit_price,
   total_price |-> row.total_price]
\* every row of the table is still there after the step, with the same facts
Kept(rows, rows2, Facts(_)) ==
  \A i \in DOMAIN rows :
    i \in DOMAIN rows2 /\ Facts(rows2[i]) = Facts(rows[i])

\* C25: an order is immutable once created: no step removes a persisted
\* header or line or changes its total_amount, paid_amount, discount, status
\* (always 'completed') or line amounts, and no step other than a step of a
\* settlement changes a stock or a debt, so nothing takes back what an order
\* did to them.
C25_OrdersImmutable ==
  [][ /\ Kept(purchase_orders, purchase_orders', HeaderFacts)
      /\ Kept(sales_orders, sales_orders', HeaderFacts)
      /\ Kept(purchase_order_items, purchase_order_items', LineFacts)
      /\ Kept(sales_order_items, sales_order_items', LineFacts)
      /\ \A i \in DOMAIN purchase_orders' : purchase_orders'[i].status = "completed"
      /\ \A i \in DOMAIN sales_orders' : sales_orders'[i].status = "completed"
      /\ (\A s \in Sessions : ~Acts(s)) =>
           UNCHANGED <<products, suppliers, customers>>
    ]_vars

=============================================================================
